---------------------------- MODULE Spec2Model ----------------------------
(***************************************************************************)
(* A model of tap_salesforce/salesforce/__init__.py: the Salesforce client *)
(* with its retried transport (_make_request under backoff.on_exception),  *)
(* its REST quota check (check_rest_quota_usage), the schema mapper        *)
(* (field_to_property_schema) and the query builder (_build_query_string). *)
(*                                                                         *)
(* Python values are modelled as follows.                                  *)
(*   None / a value      the empty sequence << >> / a one-element sequence *)
(*   a header's text     a sequence of one-character strings, so that the  *)
(*                       regular expression is matched as re.search does   *)
(*   a reason phrase     a sequence of words                               *)
(*   a dict              a record (the empty dict is the empty record)     *)
(*   a JSON string / list in a schema   Str(s) / Lst(<<...>>)              *)
(*   an exception        the name of its class                             *)
(* Percentages are integers and the quota arithmetic is exact; the inputs  *)
(* drawn below are values on which Python's double arithmetic gives the    *)
(* same comparisons.                                                       *)
(***************************************************************************)
EXTENDS Integers, Sequences, FiniteSets, TLC

VARIABLES
    quota_percent_per_run,    \* self.quota_percent_per_run
    quota_percent_total,      \* self.quota_percent_total
    select_fields_by_default, \* self.select_fields_by_default
    rest_requests_attempted,  \* self.rest_requests_attempted
    pc,                       \* "idle", "attempt" (inside the retry loop), "sleeping"
    http_method,              \* the argument of the _make_request call in progress
    tries,                    \* backoff's count of invocations of this call
    wait_n,                   \* the exponent the expo generator will use next
    wait_value,               \* the last value the expo generator yielded
    seconds,                  \* the last delay slept (after jitter), << >> if none
    resp,                     \* the outcome of the last HTTP attempt, << >> if none
    result,                   \* how the last _make_request call ended
    direct,                   \* the last direct check_rest_quota_usage call
    header_successes,         \* history: successful responses that carried the header
    allotted_seen,            \* history: allotted values of the well-formed headers
    all_within_total,         \* history: every counted response was well-formed, within the ceiling
    field,                    \* field_to_property_schema: the field argument
    mdata,                    \* field_to_property_schema: the mdata argument
    mapped,                   \* field_to_property_schema: its outcome
    q_args,                   \* _build_query_string: its arguments
    query                     \* _build_query_string: its result

transport_vars == <<pc, http_method, tries, wait_n, wait_value, seconds, resp, result>>
history_vars == <<header_successes, allotted_seen, all_within_total>>
config_vars == <<quota_percent_per_run, quota_percent_total, select_fields_by_default>>
schema_vars == <<field, mdata, mapped>>
query_vars == <<q_args, query>>
vars == <<config_vars, rest_requests_attempted, transport_vars, direct, history_vars,
          schema_vars, query_vars>>

---------------------------------------------------------------------------
(* Bounds of the model *)

\* The main specification starts no call once the counter has reached this.
MaxRequests == 5
\* The run specification (the 250/251 case) starts no call beyond this.
MaxRunRequests == 252
\* full_jitter draws from [0, value]; the model draws value * k / JitterSteps.
JitterSteps == 2

(* Program constants *)

max_tries == 10
factor == 2
base == 2
DefaultQuotaPercentPerRun == 25
DefaultQuotaPercentTotal == 80

None == << >>
Some(v) == <<v>>
NoExc == "None"

---------------------------------------------------------------------------
(* Header text *)

Digits == <<"0", "1", "2", "3", "4", "5", "6", "7", "8", "9">>
IsDigit(c) == \E i \in 1..Len(Digits) : Digits[i] = c
DigitVal(c) == CHOOSE d \in 0..9 : Digits[d + 1] = c

RECURSIVE int(_)
int(s) == IF s = << >> THEN 0
          ELSE 10 * int(SubSeq(s, 1, Len(s) - 1)) + DigitVal(s[Len(s)])

RECURSIVE str(_)
str(n) == IF n < 10 THEN <<Digits[n + 1]>>
          ELSE str(n \div 10) \o <<Digits[(n % 10) + 1]>>

ApiUsagePrefix == <<"a", "p", "i", "-", "u", "s", "a", "g", "e", "=">>

\* The text a server sends for used/allotted.
LimitInfo(used, allotted) == ApiUsagePrefix \o str(used) \o <<"/">> \o str(allotted)

AllDigits(s) == Len(s) > 0 /\ \A i \in 1..Len(s) : IsDigit(s[i])

\* re.search(r"^api-usage=(\d+)/(\d+)$", text): $ matches at the end of the
\* text and also just before a newline that ends it. None when there is no match.
re_search(text) ==
    LET t == IF Len(text) > 0 /\ text[Len(text)] = "\n"
             THEN SubSeq(text, 1, Len(text) - 1) ELSE text
        n == Len(ApiUsagePrefix)
        rest == SubSeq(t, n + 1, Len(t))
        cuts == {k \in 1..Len(rest) :
                    /\ rest[k] = "/"
                    /\ AllDigits(SubSeq(rest, 1, k - 1))
                    /\ AllDigits(SubSeq(rest, k + 1, Len(rest)))}
    IN  IF Len(t) > n /\ SubSeq(t, 1, n) = ApiUsagePrefix /\ cuts # {}
        THEN LET k == CHOOSE k \in cuts : TRUE
             IN  Some(<<SubSeq(rest, 1, k - 1), SubSeq(rest, k + 1, Len(rest))>>)
        ELSE None

\* headers.get("Sforce-Limit-Info"): the headers are modelled by this one entry.
NoHeader == None
Header(text) == Some(text)

---------------------------------------------------------------------------
(* check_rest_quota_usage *)

Returns == [exc |-> NoExc, msg |-> "none"]
Raises(e, m) == [exc |-> e, msg |-> m]

\* A variant: the ceiling itself already counts as exceeded.
total_exceeded_ge(remaining, allotted, total) == remaining * 100 >= total * allotted

\* percent_used_from_total > self.quota_percent_total, where
\* percent_used_from_total = (remaining / allotted) * 100 and allotted > 0.
total_exceeded(remaining, allotted, total) == remaining * 100 > total * allotted

\* max_requests_for_run = int((self.quota_percent_per_run * allotted) / 100)
max_requests_for_run(per_run, allotted) == (per_run * allotted) \div 100

\* A variant: the request that reaches the bound already counts as beyond it.
run_exceeded_ge(attempted, per_run, allotted) ==
    attempted >= max_requests_for_run(per_run, allotted)

\* self.rest_requests_attempted > max_requests_for_run
run_exceeded(attempted, per_run, allotted) ==
    attempted > max_requests_for_run(per_run, allotted)

\* The outcome of self.check_rest_quota_usage(headers) with the counter at
\* `attempted`: it returns, or raises the exception named. re.search raises
\* a TypeError for None, and the division a ZeroDivisionError for allotted = 0.
check_rest_quota_usage(header, attempted, per_run, total) ==
    IF header = None THEN Raises("TypeError", "none")
    ELSE LET match == re_search(header[1]) IN
         IF match = None THEN Returns
         ELSE LET remaining == int(match[1][1])
                  allotted == int(match[1][2])
              IN  IF allotted = 0 THEN Raises("ZeroDivisionError", "none")
                  ELSE IF total_exceeded(remaining, allotted, total)
                       THEN Raises("TapSalesforceQuotaExceededError", "total")
                       ELSE IF run_exceeded(attempted, per_run, allotted)
                            THEN Raises("TapSalesforceQuotaExceededError", "partial")
                            ELSE Returns

---------------------------------------------------------------------------
(* The transport: raise_for_status and the body of _make_request *)

ConnectionError == [kind |-> "ConnectionError"]
ReadTimeout == [kind |-> "ReadTimeout"]
Response(status_code, reason, header) ==
    [kind |-> "response", status_code |-> status_code, reason |-> reason, headers |-> header]

\* "CustomNotAcceptable" in resp.reason
Contains(reason, word) == \E i \in 1..Len(reason) : reason[i] = word

\* requests' Response.raise_for_status(): an HTTPError for a 4xx or 5xx status,
\* nothing for any other status.
requests_raise_for_status(r) ==
    IF 400 <= r.status_code /\ r.status_code < 600 THEN "HTTPError" ELSE NoExc

\* A variant: every 406 is taken for the transient one.
raise_for_status_any_406(r) ==
    IF r.status_code = 406 THEN "SFDCCustomNotAcceptableError"
    ELSE requests_raise_for_status(r)

\* raise_for_status(resp): the name of the exception it raises, NoExc if none.
raise_for_status(r) ==
    IF r.status_code = 406 /\ Contains(r.reason, "CustomNotAcceptable")
    THEN "SFDCCustomNotAcceptableError"
    ELSE requests_raise_for_status(r)

\* A variant: the counter is incremented after the quota check has passed.
after_status_check_first(net, attempted, per_run, total) ==
    IF net.headers # None
    THEN LET check == check_rest_quota_usage(net.headers, attempted, per_run, total)
         IN  [exc |-> check.exc, msg |-> check.msg,
              sent |-> TRUE,
              attempted |-> IF check.exc = NoExc THEN attempted + 1 ELSE attempted,
              returned |-> IF check.exc = NoExc THEN Some(net) ELSE None]
    ELSE [exc |-> NoExc, msg |-> "none",
          sent |-> TRUE, attempted |-> attempted, returned |-> Some(net)]

\* The end of the body, once raise_for_status has passed: the counter and the
\* quota check when the header is there, then the return.
after_status(net, attempted, per_run, total) ==
    IF net.headers # None
    THEN LET check == check_rest_quota_usage(net.headers, attempted + 1, per_run, total)
         IN  [exc |-> check.exc, msg |-> check.msg,
              sent |-> TRUE, attempted |-> attempted + 1,
              returned |-> IF check.exc = NoExc THEN Some(net) ELSE None]
    ELSE [exc |-> NoExc, msg |-> "none",
          sent |-> TRUE, attempted |-> attempted, returned |-> Some(net)]

\* One invocation of the body of _make_request with `net` what the session
\* answers: the exception it raises (NoExc: it returns `returned`), whether
\* an HTTP request was sent, and the counter afterwards.
_make_request(method, net, attempted, per_run, total) ==
    IF method \notin {"GET", "POST"}
    THEN [exc |-> "TapSalesforceExceptionError", msg |-> "Unsupported HTTP method",
          sent |-> FALSE, attempted |-> attempted, returned |-> None]
    ELSE IF net.kind # "response"
    THEN [exc |-> net.kind, msg |-> "none",
          sent |-> TRUE, attempted |-> attempted, returned |-> None]
    ELSE IF raise_for_status(net) # NoExc
    THEN [exc |-> raise_for_status(net), msg |-> "none",
          sent |-> TRUE, attempted |-> attempted, returned |-> None]
    ELSE after_status(net, attempted, per_run, total)

---------------------------------------------------------------------------
(* backoff.on_exception(backoff.expo, (ConnectionError,                    *)
(* SFDCCustomNotAcceptableError), max_tries=10, factor=2): jitter is not   *)
(* passed, so the decorator's default, full_jitter, applies.               *)

\* The exception classes the decorator retries. The other classes raised here
\* (HTTPError, TapSalesforceExceptionError, TapSalesforceQuotaExceededError,
\* ReadTimeout, TypeError, ZeroDivisionError) are not subclasses of these.
Retryable == {"ConnectionError", "SFDCCustomNotAcceptableError"}

RECURSIVE Pow(_, _)
Pow(b, n) == IF n = 0 THEN 1 ELSE b * Pow(b, n - 1)

\* A variant: the generator starts one power late.
expo_late(n) == factor * Pow(base, n + 1)

\* backoff.expo(factor=2): the value of its n-th yield, n = 0, 1, ...
expo(n) == factor * Pow(base, n)

\* backoff.full_jitter(value) is random.uniform(0, value): any of these.
full_jitter(value) == {(value * k) \div JitterSteps : k \in 0..JitterSteps}

\* A variant: the loop gives up one try late.
max_tries_exceeded_late(n) == n > max_tries

\* max_tries_exceeded = (tries == max_tries_value)
max_tries_exceeded(n) == n = max_tries

NoResult == [exc |-> "pending", msg |-> "none", returned |-> None]

\* What the history variables record of one invocation.
Successful(method, net) ==
    method \in {"GET", "POST"} /\ net.kind = "response" /\ raise_for_status(net) = NoExc
Counted(method, net) == Successful(method, net) /\ net.headers # None
WellFormed(header) == header # None /\ re_search(header[1]) # None
UsedOf(header) == int(re_search(header[1])[1][1])
AllottedOf(header) == int(re_search(header[1])[1][2])
WithinTotal(header, total) ==
    /\ WellFormed(header)
    /\ AllottedOf(header) > 0
    /\ UsedOf(header) * 100 <= total * AllottedOf(header)

\* A caller starts self.__make_request(method, ...).
Call(method, cap) ==
    /\ pc = "idle"
    /\ rest_requests_attempted < cap
    /\ pc' = "attempt"
    /\ http_method' = method
    /\ tries' = 0
    /\ wait_n' = 0
    /\ wait_value' = None
    /\ seconds' = None
    /\ resp' = None
    /\ result' = NoResult
    /\ direct' = None
    /\ UNCHANGED <<config_vars, rest_requests_attempted, history_vars,
                   schema_vars, query_vars>>

\* One try of the retry loop: the body runs with `net` what the session answers;
\* a retryable exception before the last try makes the loop draw its next wait,
\* anything else ends the call.
Attempt(net) ==
    /\ pc = "attempt"
    /\ LET out == _make_request(http_method, net, rest_requests_attempted,
                               quota_percent_per_run, quota_percent_total)
       IN  /\ tries' = tries + 1
           /\ resp' = IF out.sent THEN Some(net) ELSE resp
           /\ rest_requests_attempted' = out.attempted
           /\ IF out.exc \in Retryable /\ ~max_tries_exceeded(tries + 1)
              THEN /\ pc' = "sleeping"
                   /\ wait_value' = Some(expo(wait_n))
                   /\ wait_n' = wait_n + 1
                   /\ seconds' \in {Some(s) : s \in full_jitter(expo(wait_n))}
                   /\ result' = result
              ELSE /\ pc' = "idle"
                   /\ result' = [exc |-> out.exc, msg |-> out.msg, returned |-> out.returned]
                   /\ wait_n' = 0
                   /\ wait_value' = None
                   /\ seconds' = None
    /\ header_successes' = header_successes + (IF Counted(http_method, net) THEN 1 ELSE 0)
    /\ allotted_seen' = IF Counted(http_method, net) /\ WellFormed(net.headers)
                        THEN allotted_seen \cup {AllottedOf(net.headers)}
                        ELSE allotted_seen
    /\ all_within_total' = (all_within_total /\
                            (Successful(http_method, net)
                                => WithinTotal(net.headers, quota_percent_total)))
    /\ UNCHANGED <<config_vars, http_method, direct, schema_vars, query_vars>>

\* time.sleep(seconds) ends and the loop tries again.
Sleep ==
    /\ pc = "sleeping"
    /\ pc' = "attempt"
    /\ UNCHANGED <<config_vars, rest_requests_attempted, http_method, tries, wait_n,
                   wait_value, seconds, resp, result, direct, history_vars,
                   schema_vars, query_vars>>

\* A caller invokes self.check_rest_quota_usage(headers) itself.
CheckQuota(header) ==
    /\ pc = "idle"
    /\ direct' = Some([headers |-> header,
                       attempted |-> rest_requests_attempted,
                       outcome |-> check_rest_quota_usage(header, rest_requests_attempted,
                                       quota_percent_per_run, quota_percent_total)])
    /\ UNCHANGED <<config_vars, rest_requests_attempted, transport_vars, history_vars,
                   schema_vars, query_vars>>

---------------------------------------------------------------------------
(* field_to_property_schema *)

STRING_TYPES ==
    {"id", "string", "picklist", "textarea", "phone", "url", "reference",
     "multipicklist", "combobox", "encryptedstring", "email", "complexvalue",
     "masterrecord", "datacategorygroupreference", "base64"}
NUMBER_TYPES == {"double", "currency", "percent"}
DATE_TYPES == {"datetime", "date"}
BINARY_TYPES == {"byte"}
LOOSE_TYPES == {"anyType", "calculated"}

Str(s) == [str |-> s]
Lst(q) == [list |-> q]
EmptyDict == << >>

\* {"type": ["null", t]}
NullOr(t) == [type |-> Lst(<<Str("null"), Str(t)>>)]

AddressProperties ==
    [street |-> NullOr("string"), state |-> NullOr("string"),
     postalCode |-> NullOr("string"), city |-> NullOr("string"),
     country |-> NullOr("string"), longitude |-> NullOr("number"),
     latitude |-> NullOr("number"), geocodeAccuracy |-> NullOr("string")]

LocationProperties == [longitude |-> NullOr("number"), latitude |-> NullOr("number")]

\* singer's metadata.write(mdata, ("properties", field_name), k, v); the
\* metadata map is the set of its <<field_name, key, value>> entries.
metadata_write(md, field_name, k, v) ==
    {e \in md : ~(e[1] = field_name /\ e[2] = k)} \cup {<<field_name, k, v>>}

Built(ps, md) == [exc |-> NoExc, returned |-> FALSE, schema |-> Some(ps), mdata |-> Some(md)]
Returned(ps, md) == [exc |-> NoExc, returned |-> TRUE, schema |-> Some(ps), mdata |-> Some(md)]
Raised(e) == [exc |-> e, returned |-> FALSE, schema |-> None, mdata |-> None]

\* The if / elif chain on sf_type: the fragment built, an early return, or a raise.
TypeBranch(field_name, sf_type, md) ==
    IF sf_type \in STRING_TYPES THEN Built([type |-> Str("string")], md)
    ELSE IF sf_type \in DATE_TYPES
    THEN Built([anyOf |-> <<[type |-> Str("string"), format |-> Str("date-time")],
                            [type |-> Lst(<<Str("string"), Str("null")>>)]>>], md)
    ELSE IF sf_type = "boolean" THEN Built([type |-> Str("boolean")], md)
    ELSE IF sf_type \in NUMBER_TYPES THEN Built([type |-> Str("number")], md)
    ELSE IF sf_type = "address"
    THEN Built([type |-> Str("object"), properties |-> AddressProperties], md)
    ELSE IF sf_type \in {"int", "long"} THEN Built([type |-> Str("integer")], md)
    ELSE IF sf_type = "time" THEN Built([type |-> Str("string")], md)
    ELSE IF sf_type \in LOOSE_TYPES THEN Returned(EmptyDict, md)
    ELSE IF sf_type \in BINARY_TYPES
    THEN Returned(EmptyDict,
                  metadata_write(metadata_write(md, field_name, "inclusion", "unsupported"),
                                 field_name, "unsupported-description", "binary data"))
    ELSE IF sf_type = "location"
    THEN Built([type |-> Lst(<<Str("number"), Str("object"), Str("null")>>),
                properties |-> LocationProperties], md)
    ELSE IF sf_type = "json" THEN Built([type |-> Str("string")], md)
    ELSE Raised("TapSalesforceExceptionError")

\* A variant: the location exemption is missing.
NillableApplies_location_too(field_name, sf_type) ==
    field_name # "Id" /\ sf_type \notin DATE_TYPES

\* if field_name != "Id" and sf_type != "location" and sf_type not in DATE_TYPES
NillableApplies(field_name, sf_type) ==
    field_name # "Id" /\ sf_type # "location" /\ sf_type \notin DATE_TYPES

\* A variant: null is appended instead of prepended.
WrapNull_appended(ps) ==
    [k \in DOMAIN ps |-> IF k = "type" THEN Lst(<<ps[k], Str("null")>>) ELSE ps[k]]

\* property_schema["type"] = ["null", property_schema["type"]]
WrapNull(ps) ==
    [k \in DOMAIN ps |-> IF k = "type" THEN Lst(<<Str("null"), ps[k]>>) ELSE ps[k]]

\* field_to_property_schema(field, mdata): the pair it returns, or the
\* exception it raises.
field_to_property_schema(f, md) ==
    LET branch == TypeBranch(f.name, f.type, md)
        ps == branch.schema[1]
    IN  IF branch.exc # NoExc \/ branch.returned THEN branch
        ELSE IF NillableApplies(f.name, f.type)
        THEN IF "type" \in DOMAIN ps
             THEN Built(WrapNull(ps), md)
             ELSE Raised("KeyError")
        ELSE branch

\* A caller (discovery) maps one field.
MapField ==
    /\ mapped = None
    /\ field # None
    /\ mapped' = Some(field_to_property_schema(field[1], mdata[1]))
    /\ UNCHANGED <<config_vars, rest_requests_attempted, transport_vars, direct,
                   history_vars, field, mdata, query_vars>>

---------------------------------------------------------------------------
(* _get_selected_properties and _build_query_string *)

\* singer.should_sync_field(inclusion, selected, default): an automatic field
\* is always synced, an unsupported one never, otherwise the selection decides
\* and the default stands in for a selection of None.
should_sync_field(inclusion, selected, default) ==
    IF inclusion = Some("automatic") THEN TRUE
    ELSE IF inclusion = Some("unsupported") THEN FALSE
    ELSE IF selected = None THEN default
    ELSE selected[1]

\* [k for k in properties if should_sync_field(...)]: the catalog entry's
\* properties in their order, those not synced left out.
RECURSIVE SelectSeq2(_, _, _)
SelectSeq2(properties, md, default) ==
    IF properties = << >> THEN << >>
    ELSE LET k == Head(properties)
             rest == SelectSeq2(Tail(properties), md, default)
         IN  IF should_sync_field(md[k].inclusion, md[k].selected, default)
             THEN <<k>> \o rest ELSE rest

_get_selected_properties(catalog_entry, default) ==
    SelectSeq2(catalog_entry.properties, catalog_entry.metadata, default)

\* sep.join(names)
RECURSIVE join(_, _)
join(sep, names) ==
    IF names = << >> THEN ""
    ELSE IF Len(names) = 1 THEN names[1]
    ELSE names[1] \o sep \o join(sep, Tail(names))

\* Python's truth value of an optional string: None and "" are false.
Truthy(opt) == opt # None /\ opt[1] # ""

\* A variant: the clause without its trailing space.
where_clause_trimmed(replication_key, start_date) ==
    " WHERE " \o replication_key \o " >= " \o start_date

\* f" WHERE {replication_key} >= {start_date} "
where_clause(replication_key, start_date) ==
    " WHERE " \o replication_key \o " >= " \o start_date \o " "

\* f" AND {replication_key} < {end_date}" if end_date else ""
end_date_clause(replication_key, end_date) ==
    IF Truthy(end_date) THEN " AND " \o replication_key \o " < " \o end_date[1] ELSE ""

\* f" ORDER BY {replication_key} ASC"
order_by(replication_key) == " ORDER BY " \o replication_key \o " ASC"

_build_query_string(catalog_entry, start_date, end_date, order_by_clause, default) ==
    LET selected_properties == _get_selected_properties(catalog_entry, default)
        q == "SELECT " \o join(",", selected_properties) \o " FROM " \o catalog_entry.stream
        replication_key == catalog_entry.replication_key
    IN  IF Truthy(replication_key)
        THEN IF order_by_clause
             THEN q \o where_clause(replication_key[1], start_date)
                    \o end_date_clause(replication_key[1], end_date)
                    \o order_by(replication_key[1])
             ELSE q \o where_clause(replication_key[1], start_date)
                    \o end_date_clause(replication_key[1], end_date)
        ELSE q

\* A caller (a sync) builds the query of one stream.
BuildQuery ==
    /\ query = None
    /\ q_args # None
    /\ query' = Some(_build_query_string(q_args[1].catalog_entry, q_args[1].start_date,
                                         q_args[1].end_date, q_args[1].order_by_clause,
                                         select_fields_by_default))
    /\ UNCHANGED <<config_vars, rest_requests_attempted, transport_vars, direct,
                   history_vars, schema_vars, q_args>>

---------------------------------------------------------------------------
(* The inputs the environment draws *)

Methods == {"GET", "POST", "PUT"}

\* <<used, allotted>> of the well-formed headers.
UsagePairs == {<<4, 8>>, <<5, 8>>, <<9, 8>>, <<5, 10>>, <<8, 10>>, <<9, 10>>, <<4, 0>>}

\* Texts that are not of the form api-usage=<used>/<allotted>: Salesforce's
\* per-app variant, a missing number, a negative number, the empty text.
MalformedTexts ==
    { LimitInfo(9, 10) \o <<";", "p", "e", "r", "-", "a", "p", "p">>,
      ApiUsagePrefix \o <<"9", "/">>,
      ApiUsagePrefix \o <<"-", "9", "/", "1", "0">>,
      << >> }

\* A text that ends in a newline: only a direct caller can pass one.
NewlineText == LimitInfo(9, 10) \o <<"\n">>

ResponseHeaders ==
    {NoHeader} \cup {Header(LimitInfo(u[1], u[2])) : u \in UsagePairs}
               \cup {Header(t) : t \in MalformedTexts}

Responses ==
    {Response(200, <<"OK">>, h) : h \in ResponseHeaders}
    \cup {Response(c, <<"Status">>, h) :
            c \in {201, 304, 404, 500}, h \in {NoHeader, Header(LimitInfo(4, 10))}}
    \cup {Response(406, r, h) :
            r \in {<<"CustomNotAcceptable">>, <<"Not", "Acceptable">>},
            h \in {NoHeader, Header(LimitInfo(4, 10))}}

NetOutcomes == {ConnectionError, ReadTimeout} \cup Responses

DirectHeaders ==
    {NoHeader, Header(NewlineText), Header(LimitInfo(4, 8)), Header(LimitInfo(9, 10)),
     Header(LimitInfo(4, 0))} \cup {Header(t) : t \in MalformedTexts}

\* (quota_percent_per_run, quota_percent_total) of the configurations drawn;
\* the first is the defaults of __init__.
Quotas == {<<DefaultQuotaPercentPerRun, DefaultQuotaPercentTotal>>, <<50, 50>>}

---------------------------------------------------------------------------
(* The client: the state after __init__, and its operations *)

InitClient ==
    /\ select_fields_by_default \in BOOLEAN
    /\ rest_requests_attempted = 0
    /\ pc = "idle"
    /\ http_method = "GET"
    /\ tries = 0
    /\ wait_n = 0
    /\ wait_value = None
    /\ seconds = None
    /\ resp = None
    /\ result = NoResult
    /\ direct = None
    /\ header_successes = 0
    /\ allotted_seen = {}
    /\ all_within_total = TRUE

NoSchemaCall == field = None /\ mdata = None /\ mapped = None
NoQueryCall == q_args = None /\ query = None

Init ==
    /\ \E q \in Quotas : quota_percent_per_run = q[1] /\ quota_percent_total = q[2]
    /\ InitClient
    /\ select_fields_by_default = FALSE
    /\ NoSchemaCall
    /\ NoQueryCall

\* A run of _make_request calls, each with its retries.
Next ==
    \/ \E m \in Methods : Call(m, MaxRequests)
    \/ \E net \in NetOutcomes : Attempt(net)
    \/ Sleep

Spec == Init /\ [][Next]_vars

\* A run whose caller also invokes check_rest_quota_usage itself.
DirectOutcomes ==
    {ConnectionError} \cup
    {Response(200, <<"OK">>, h) : h \in {NoHeader, Header(LimitInfo(4, 8)), Header(LimitInfo(9, 10))}}

NextDirect ==
    \/ Call("GET", MaxRequests)
    \/ \E net \in DirectOutcomes : Attempt(net)
    \/ Sleep
    \/ \E h \in DirectHeaders : CheckQuota(h)

SpecDirect == Init /\ [][NextDirect]_vars

\* A run with the default quotas against an org whose allotment is 1000
\* (and one of 10), long enough to pass the per-run bound of 250 requests;
\* the network does not fail in it.
RunOutcomes ==
    {Response(200, <<"OK">>, Header(LimitInfo(u[1], u[2]))) :
        u \in {<<750, 1000>>, <<800, 1000>>, <<8, 10>>, <<9, 10>>}}

InitRun ==
    /\ quota_percent_per_run = DefaultQuotaPercentPerRun
    /\ quota_percent_total = DefaultQuotaPercentTotal
    /\ InitClient
    /\ select_fields_by_default = FALSE
    /\ NoSchemaCall
    /\ NoQueryCall

NextRun ==
    \/ Call("GET", MaxRunRequests)
    \/ \E net \in RunOutcomes : Attempt(net)

SpecRun == InitRun /\ [][NextRun]_vars

---------------------------------------------------------------------------
(* Schema discovery: the fields and metadata drawn *)

SupportedTags ==
    STRING_TYPES \cup DATE_TYPES \cup NUMBER_TYPES \cup BINARY_TYPES \cup LOOSE_TYPES
    \cup {"boolean", "address", "int", "long", "time", "location", "json"}

\* Tags outside the vocabulary, among them other spellings of supported ones.
OtherTags == {"anytype", "String", "bytes", "float", "", "unknown"}

FieldNames == {"Id", "Name", "BillingAddress"}

Fields == [name : FieldNames, type : SupportedTags \cup OtherTags]

Mdatas(name) ==
    { {}, {<<name, "inclusion", "available">>},
      {<<name, "inclusion", "available">>, <<"Other", "selected", "true">>} }

InitSchema ==
    /\ quota_percent_per_run = DefaultQuotaPercentPerRun
    /\ quota_percent_total = DefaultQuotaPercentTotal
    /\ InitClient
    /\ select_fields_by_default = FALSE
    /\ \E f \in Fields : \E md \in Mdatas(f.name) : field = Some(f) /\ mdata = Some(md)
    /\ mapped = None
    /\ NoQueryCall

NextSchema == MapField

SpecSchema == InitSchema /\ [][NextSchema]_vars

---------------------------------------------------------------------------
(* Syncs: the catalog entries and dates drawn *)

Meta(inclusion, selected) == [inclusion |-> inclusion, selected |-> selected]

\* Nothing selected or deselected; explicit selections; an unsupported field
\* that is selected and an automatic field that is deselected.
Metadatas ==
    { [k \in {"Id", "Name", "Photo"} |-> Meta(Some("available"), None)],
      [Id |-> Meta(Some("automatic"), None), Name |-> Meta(Some("available"), Some(TRUE)),
       Photo |-> Meta(Some("available"), Some(FALSE))],
      [Id |-> Meta(Some("automatic"), Some(FALSE)), Name |-> Meta(None, None),
       Photo |-> Meta(Some("unsupported"), Some(TRUE))] }

CatalogEntries ==
    [stream : {"Account", "Lead"},
     properties : {<<"Id", "Name", "Photo">>, <<"Name", "Id">>, <<"Photo">>, << >>},
     metadata : Metadatas,
     replication_key : {None, Some(""), Some("SystemModstamp"), Some("LastModifiedDate")}]

StartDates == {"2024-01-01T00:00:00Z", "2023-06-30T12:00:00Z"}
EndDates == {None, Some(""), Some("2024-02-01T00:00:00Z")}

QueryArgs ==
    [catalog_entry : CatalogEntries, start_date : StartDates, end_date : EndDates,
     order_by_clause : BOOLEAN]

InitQuery ==
    /\ quota_percent_per_run = DefaultQuotaPercentPerRun
    /\ quota_percent_total = DefaultQuotaPercentTotal
    /\ InitClient
    /\ NoSchemaCall
    /\ \E a \in QueryArgs : q_args = Some(a)
    /\ query = None

NextQuery == BuildQuery

SpecQuery == InitQuery /\ [][NextQuery]_vars

---------------------------------------------------------------------------
(* Properties of the transport and the quota check *)

QuotaExceeded == "TapSalesforceQuotaExceededError"

\* A _make_request call has ended.
Ended == pc = "idle" /\ result.exc # "pending"

\* The last HTTP attempt of the call got a response that passed raise_for_status.
LastSuccessful == resp # None /\ Successful(http_method, resp[1])

\* ... and that response carried a header api-usage=<used>/<allotted>, allotted > 0.
LastWithUsage ==
    /\ LastSuccessful
    /\ WellFormed(resp[1].headers)
    /\ AllottedOf(resp[1].headers) > 0

\* C1: a response header api-usage=<used>/<allotted> with allotted > 0 makes
\* the quota check fail with the quota-exceeded error whenever used * 100 /
\* allotted is above quota_percent_total, whatever the counter; at or below the
\* ceiling, with the counter within the per-run bound, the call returns the
\* response. With ceiling 80 and allotted 1000, used = 850 raises, 800 and 750
\* do not. The error ends the call: while a call is still retrying, its last
\* response was not one that reached the quota check.
C1_TotalCeiling ==
    /\ (Ended /\ LastWithUsage) =>
          LET used == UsedOf(resp[1].headers)
              allotted == AllottedOf(resp[1].headers)
          IN  /\ used * 100 > quota_percent_total * allotted
                    => (result.exc = QuotaExceeded /\ result.returned = None)
              /\ (/\ used * 100 <= quota_percent_total * allotted
                  /\ rest_requests_attempted * 100 <= quota_percent_per_run * allotted)
                    => (result.exc = NoExc /\ result.returned = resp)
    /\ (pc # "idle" /\ resp # None) => ~LastSuccessful
    /\ \A n \in {1, 300} :
          check_rest_quota_usage(Header(LimitInfo(850, 1000)), n, 25, 80).exc = QuotaExceeded
    /\ check_rest_quota_usage(Header(LimitInfo(800, 1000)), 1, 25, 80) = Returns
    /\ check_rest_quota_usage(Header(LimitInfo(750, 1000)), 1, 25, 80) = Returns

\* A call ended by the total ceiling although the counter was within the run's bound.
C1_Witness ==
    /\ Ended /\ LastWithUsage
    /\ result = [exc |-> QuotaExceeded, msg |-> "total", returned |-> None]
    /\ rest_requests_attempted = 1
    /\ tries = 2

\* C2: when every successful response so far carried a well-formed header
\* with the same allotted value A and a used value within the total ceiling,
\* the k-th of them is returned for every k <= floor(per_run * A / 100) and
\* the request is ended by the quota-exceeded error for k above it; with 25
\* per cent and A = 1000 the 250th returns and the 251st raises.
C2_PerRunBound ==
    (Ended /\ LastSuccessful /\ all_within_total /\ Cardinality(allotted_seen) = 1) =>
        LET A == CHOOSE a \in allotted_seen : TRUE
            k == header_successes
        IN  /\ k * 100 <= quota_percent_per_run * A
                  => (result.exc = NoExc /\ result.returned = resp)
            /\ k * 100 > quota_percent_per_run * A
                  => (result.exc = QuotaExceeded /\ result.returned = None)
            /\ (A = 1000 /\ quota_percent_per_run = 25 /\ k = 250) => result.exc = NoExc
            /\ (A = 1000 /\ quota_percent_per_run = 25 /\ k = 251) => result.exc = QuotaExceeded

\* The 251st request of a run against an allotment of 1000.
C2_Witness ==
    /\ Ended /\ LastSuccessful /\ all_within_total
    /\ allotted_seen = {1000}
    /\ header_successes = 251
    /\ result.exc = QuotaExceeded

\* C3: a call makes at most 10 attempts; it goes on to a further attempt only
\* after fewer than 10; when it returns, it returns the response of its last
\* attempt; when it ends with a connection failure or the retried 406, that
\* is the error of its 10th attempt.
C3_AtMostTenAttempts ==
    /\ tries <= 10
    /\ pc # "idle" => tries < 10
    /\ (Ended /\ result.exc = NoExc)
          => (LastSuccessful /\ result.returned = resp)
    /\ (Ended /\ result.exc \in {"ConnectionError", "SFDCCustomNotAcceptableError"})
          => /\ tries = 10
             /\ resp # None
             /\ result.exc = "ConnectionError" <=> resp[1].kind = "ConnectionError"
             /\ result.returned = None

\* Three transient failures, then the response of the fourth attempt is returned.
C3_Witness ==
    /\ Ended
    /\ tries = 4
    /\ result.exc = NoExc
    /\ result.returned = resp

\* C4 as stated: the delay waited after failed attempt n is factor * 2^(n-1), factor 2.
C4_DelayIsExponential ==
    pc = "sleeping" => seconds = Some(2 * Pow(2, tries - 1))

\* C4, amended: after failed attempt n the generator's value is 2 * 2^(n-1)
\* and the delay waited is drawn from 0 up to that value.
C4_DelayWithinExponential ==
    pc = "sleeping" =>
        /\ wait_value = Some(2 * Pow(2, tries - 1))
        /\ seconds # None
        /\ seconds[1] \in 0..(2 * Pow(2, tries - 1))

\* A wait after the third failure that is shorter than the generator's value.
C4_Witness ==
    /\ pc = "sleeping"
    /\ tries = 3
    /\ wait_value = Some(8)
    /\ seconds[1] < 8

IsRetried406(r) == r.status_code = 406 /\ Contains(r.reason, "CustomNotAcceptable")

\* The last attempt raised an HTTP error and ended the call with it.
EndedWithHTTPError ==
    pc = "idle" /\ result.exc = "HTTPError" /\ result.returned = None

\* C5 as stated: every response with a status other than 200, except the
\* retried 406, makes the call raise an HTTP error from that attempt.
C5_EveryNon200Raises ==
    (/\ http_method \in {"GET", "POST"}
     /\ resp # None /\ resp[1].kind = "response"
     /\ resp[1].status_code # 200
     /\ ~IsRetried406(resp[1]))
        => EndedWithHTTPError

\* C5, amended: every response with a 4xx or 5xx status, except the retried
\* 406, makes the call raise an HTTP error from that attempt.
C5_Every4xx5xxRaises ==
    (/\ http_method \in {"GET", "POST"}
     /\ resp # None /\ resp[1].kind = "response"
     /\ resp[1].status_code \in 400..599
     /\ ~IsRetried406(resp[1]))
        => EndedWithHTTPError

\* A 406 without the CustomNotAcceptable reason, after one retried failure.
C5_Witness ==
    /\ EndedWithHTTPError
    /\ tries = 2
    /\ resp # None /\ resp[1].kind = "response"
    /\ resp[1].status_code = 406
    /\ ~IsRetried406(resp[1])

\* The text is exactly api-usage=<used>/<allotted>, two non-negative integers.
ExactForm(text) ==
    \E k \in 1..Len(text) :
        /\ k > Len(ApiUsagePrefix) + 1
        /\ SubSeq(text, 1, Len(ApiUsagePrefix)) = ApiUsagePrefix
        /\ text[k] = "/"
        /\ AllDigits(SubSeq(text, Len(ApiUsagePrefix) + 1, k - 1))
        /\ AllDigits(SubSeq(text, k + 1, Len(text)))

\* C6: check_rest_quota_usage called with the header absent, or present but
\* not exactly of the form api-usage=<used>/<allotted>, returns normally.
C6_AbsentOrMalformedIsNoOp ==
    (direct # None /\ (direct[1].headers = None \/ ~ExactForm(direct[1].headers[1])))
        => direct[1].outcome = Returns

\* C10: the counter equals the number of attempts that got a successful
\* response carrying the header.
C10_CounterCountsHeaderResponses ==
    rest_requests_attempted = header_successes

\* The first counted response is the one whose quota check failed.
C10_Witness ==
    /\ Ended
    /\ result.exc = QuotaExceeded
    /\ rest_requests_attempted = 1
    /\ header_successes = 1

---------------------------------------------------------------------------
(* Properties of the schema mapper *)

\* The fragment the table gives a tag, before the nullability rule.
TableFragment(tag) ==
    CASE tag \in {"id", "string", "picklist", "textarea", "phone", "url", "reference",
                  "multipicklist", "combobox", "encryptedstring", "email",
                  "complexvalue", "masterrecord", "datacategorygroupreference",
                  "base64"} -> [type |-> Str("string")]
      [] tag \in {"datetime", "date"} ->
            [anyOf |-> <<[type |-> Str("string"), format |-> Str("date-time")],
                         [type |-> Lst(<<Str("string"), Str("null")>>)]>>]
      [] tag = "boolean" -> [type |-> Str("boolean")]
      [] tag \in {"double", "currency", "percent"} -> [type |-> Str("number")]
      [] tag \in {"int", "long"} -> [type |-> Str("integer")]
      [] tag \in {"time", "json"} -> [type |-> Str("string")]
      [] tag = "address" ->
            [type |-> Str("object"),
             properties |->
                [street |-> [type |-> Lst(<<Str("null"), Str("string")>>)],
                 state |-> [type |-> Lst(<<Str("null"), Str("string")>>)],
                 postalCode |-> [type |-> Lst(<<Str("null"), Str("string")>>)],
                 city |-> [type |-> Lst(<<Str("null"), Str("string")>>)],
                 country |-> [type |-> Lst(<<Str("null"), Str("string")>>)],
                 longitude |-> [type |-> Lst(<<Str("null"), Str("number")>>)],
                 latitude |-> [type |-> Lst(<<Str("null"), Str("number")>>)],
                 geocodeAccuracy |-> [type |-> Lst(<<Str("null"), Str("string")>>)]]]
      [] tag = "location" ->
            [type |-> Lst(<<Str("number"), Str("object"), Str("null")>>),
             properties |->
                [longitude |-> [type |-> Lst(<<Str("null"), Str("number")>>)],
                 latitude |-> [type |-> Lst(<<Str("null"), Str("number")>>)]]]
      [] tag \in {"anyType", "calculated", "byte"} -> EmptyDict

Vocabulary ==
    {"id", "string", "picklist", "textarea", "phone", "url", "reference",
     "multipicklist", "combobox", "encryptedstring", "email", "complexvalue",
     "masterrecord", "datacategorygroupreference", "base64", "datetime", "date",
     "boolean", "double", "currency", "percent", "int", "long", "time", "json",
     "address", "location", "anyType", "calculated", "byte"}

\* The table's fragment with the general nullability rule: a type that is
\* there is wrapped with null unless the field is Id, a location or a date.
ExpectedFragment(name, tag) ==
    LET frag == TableFragment(tag)
    IN  IF /\ name # "Id"
           /\ tag \notin {"location", "datetime", "date"}
           /\ "type" \in DOMAIN frag
        THEN [k \in DOMAIN frag |->
                IF k = "type" THEN Lst(<<Str("null"), frag.type>>) ELSE frag[k]]
        ELSE frag

\* The metadata with the field marked unsupported, "binary data".
MarkedBinary(md, name) ==
    {e \in md : e[1] # name \/ e[2] \notin {"inclusion", "unsupported-description"}}
    \cup {<<name, "inclusion", "unsupported">>,
          <<name, "unsupported-description", "binary data">>}

\* C7: for every tag of the vocabulary field_to_property_schema returns the
\* table's fragment with the nullability rule applied, and the metadata
\* unchanged except for byte, where the field is marked unsupported with the
\* description "binary data"; for every other tag it raises the
\* unsupported-type error and returns nothing.
C7_FragmentOfTable ==
    mapped # None =>
        LET f == field[1]
            out == mapped[1]
        IN  IF f.type \in Vocabulary
            THEN /\ out.exc = NoExc
                 /\ out.schema = Some(ExpectedFragment(f.name, f.type))
                 /\ out.mdata = IF f.type = "byte"
                                THEN Some(MarkedBinary(mdata[1], f.name))
                                ELSE mdata
            ELSE /\ out.exc = "TapSalesforceExceptionError"
                 /\ out.schema = None
                 /\ out.mdata = None

\* A byte field whose metadata already had an inclusion entry.
C7_Witness ==
    /\ mapped # None
    /\ field[1].type = "byte"
    /\ <<field[1].name, "inclusion", "available">> \in mdata[1]
    /\ mapped[1].schema = Some(EmptyDict)
    /\ <<field[1].name, "inclusion", "unsupported">> \in mapped[1].mdata[1]

\* The number of null markers in a type: a string, or a list of types.
RECURSIVE NullsIn(_)
RECURSIVE NullsInAll(_)
NullsIn(t) ==
    IF "str" \in DOMAIN t THEN (IF t.str = "null" THEN 1 ELSE 0) ELSE NullsInAll(t.list)
NullsInAll(q) == IF q = << >> THEN 0 ELSE NullsIn(Head(q)) + NullsInAll(Tail(q))

\* The fragment has a type set (a list of types) that includes the null marker.
TypeSetIncludesNull(ps) ==
    /\ "type" \in DOMAIN ps
    /\ "list" \in DOMAIN ps.type
    /\ \E i \in 1..Len(ps.type.list) : ps.type.list[i] = Str("null")

\* A date fragment: no type of its own (nothing wrapped), its second
\* alternative nullable.
DateFragmentNullableOnce(ps) ==
    /\ DOMAIN ps = {"anyOf"}
    /\ \E i \in 1..Len(ps.anyOf) : NullsIn(ps.anyOf[i].type) = 1
    /\ \A i \in 1..Len(ps.anyOf) : NullsIn(ps.anyOf[i].type) <= 1

DateAndLocationParts ==
    mapped # None /\ mapped[1].exc = NoExc =>
        LET f == field[1]
            ps == mapped[1].schema[1]
        IN  /\ f.type \in {"datetime", "date"} => DateFragmentNullableOnce(ps)
            /\ f.type = "location" => ("type" \in DOMAIN ps /\ NullsIn(ps.type) = 1)

\* C8 as stated: every field other than Id whose supported tag is not a date
\* type gets a fragment whose type set includes null; date fragments carry a
\* nullable alternative and are not wrapped; location fragments contain null
\* exactly once.
C8_EveryFragmentNullable ==
    /\ DateAndLocationParts
    /\ (mapped # None /\ mapped[1].exc = NoExc) =>
          ((field[1].name # "Id" /\ field[1].type \notin {"datetime", "date"})
              => TypeSetIncludesNull(mapped[1].schema[1]))

\* C8, amended: the same for every supported tag that is neither a date type
\* nor one of anyType, calculated and byte, whose fragment is empty.
C8_TypedFragmentNullable ==
    /\ DateAndLocationParts
    /\ (mapped # None /\ mapped[1].exc = NoExc) =>
          ((/\ field[1].name # "Id"
            /\ field[1].type \notin {"datetime", "date"}
            /\ field[1].type \notin {"anyType", "calculated", "byte"})
              => TypeSetIncludesNull(mapped[1].schema[1]))

\* An address field other than Id, mapped to a nullable object.
C8_Witness ==
    /\ mapped # None
    /\ field[1] = [name |-> "BillingAddress", type |-> "address"]
    /\ mapped[1].exc = NoExc
    /\ mapped[1].schema[1].type = Lst(<<Str("null"), Str("object")>>)

---------------------------------------------------------------------------
(* Properties of the query builder *)

\* The query the claim gives for the arguments a, with `fields` selected.
ExpectedQuery(a, fields) ==
    LET e == a.catalog_entry
        select == "SELECT " \o join(",", fields) \o " FROM " \o e.stream
        K == e.replication_key
    IN  IF K = None \/ K = Some("") THEN select
        ELSE select \o " WHERE " \o K[1] \o " >= " \o a.start_date \o " "
                  \o (IF a.end_date = None \/ a.end_date = Some("") THEN ""
                      ELSE " AND " \o K[1] \o " < " \o a.end_date[1])
                  \o (IF a.order_by_clause THEN " ORDER BY " \o K[1] \o " ASC" ELSE "")

\* C9: without a replication key the query is SELECT <fields> FROM <stream>;
\* with replication key K and start S it is that followed by " WHERE K >= S ",
\* then " AND K < E" only with an end date E, then " ORDER BY K ASC" only
\* with order_by_clause, e.g. for SystemModstamp from 2024-01-01T00:00:00Z.
C9_QueryString ==
    query # None =>
        LET a == q_args[1]
            e == a.catalog_entry
        IN  /\ query[1] = ExpectedQuery(a, _get_selected_properties(e, select_fields_by_default))
            /\ (/\ e.replication_key = Some("SystemModstamp")
                /\ a.start_date = "2024-01-01T00:00:00Z"
                /\ a.end_date = None
                /\ a.order_by_clause
                /\ e.stream = "Account"
                /\ _get_selected_properties(e, select_fields_by_default) = <<"Id", "Name">>)
                  => query[1] = "SELECT Id,Name FROM Account WHERE SystemModstamp >= "
                                \o "2024-01-01T00:00:00Z  ORDER BY SystemModstamp ASC"

\* The query of the example, with an end date between WHERE and ORDER BY.
C9_Witness ==
    /\ query = Some("SELECT Id,Name FROM Account WHERE SystemModstamp >= 2024-01-01T00:00:00Z "
                    \o " AND SystemModstamp < 2024-02-01T00:00:00Z ORDER BY SystemModstamp ASC")
    /\ q_args[1].order_by_clause

=============================================================================
